---- MODULE Spec2Model ----
(***************************************************************************)
(* TideWatch (src/App.tsx): the App component as a state machine.          *)
(*                                                                         *)
(* State is the component's React state, the browser environment it reads  *)
(* (clock, Notification.permission, navigator.serviceWorker.controller,    *)
(* localStorage), the messages posted to the service worker, and the       *)
(* asynchronous requests in flight, each with the values its closure       *)
(* captured when it was started.                                           *)
(*                                                                         *)
(* Calendar: a Date is a number of clock ticks; a day has TicksPerDay      *)
(* ticks and a month has MonthLen days.  Heights and thresholds are in     *)
(* tenths of a foot.  State updates made after an await are batched into   *)
(* one render, and the effect of line 180 runs right after that render.    *)
(*                                                                         *)
(* Left out, as nothing below reads them: searchQuery, viewMode,           *)
(* showSettings and the two storage keys of line 80-81.  The services      *)
(* (fetchTidePredictions, findStationId) are outside src/: a call either   *)
(* answers with a value drawn from a small set or, for the fetch, fails.   *)
(***************************************************************************)
EXTENDS Integers, Sequences, FiniteSets, Bags, TLC

VARIABLES
  currentDate,    \* line 56: the Date whose month is shown
  station,        \* line 57: SavedStation {id, name}
  threshold,      \* line 58
  loading,        \* line 60
  dailyData,      \* line 61
  error,          \* line 62
  notifSettings,  \* line 67: {enabled, leadDays}
  favorites,      \* line 73
  now,            \* the browser clock, new Date()
  permission,     \* Notification.permission
  controller,     \* navigator.serviceWorker.controller is non-null
  storage,        \* localStorage: the alert keys present
  posted,         \* bag of the messages posted to the service worker
  loads,          \* tide-prediction fetches in flight, with their closures
  lookups,        \* findStationId calls in flight
  nreq,           \* number of requests started so far
  lastOk,         \* history: the last load that succeeded, with its response
  order,          \* history: the loads completed, in order of arrival
  held,           \* history: the alert keys line 115 found already written
  lost,           \* history: the alert keys line 117 dropped
  failed          \* history: a failure happened since the last load start

vars == <<currentDate, station, threshold, loading, dailyData, error,
          notifSettings, favorites, now, permission, controller, storage,
          posted, loads, lookups, nreq, lastOk, order, held, lost, failed>>

uiVars == <<currentDate, station, threshold, notifSettings, favorites>>
envVars == <<now, permission, controller>>
histVars == <<lastOk, order, held, lost, failed>>

----------------------------------------------------------------------------
(* Bounds of the model *)

MonthLen == 2       \* days in a month of the model calendar
TicksPerDay == 2    \* clock ticks in a day (tick 0 of a day is midnight)
MaxReqs == 3        \* requests started in one run, the mount's load included
MaxPreds == 2       \* predictions in one response

(* Program constants *)

DefaultThreshold == 60    \* 6.0 ft
DefaultLeadDays == 1
LeadWindow == 7

NULL == "null"
NoLoad == [seq |-> 0]
InvalidDate == -1
ErrLoad == "Could not load tide data for this station. Please try another."
ErrNotFound == "Station not found. Try a coastal city or zip code."

DefaultStation == [id |-> "9414290", name |-> "San Francisco, CA"]

\* What the resolver can answer with: a station, a result without a
\* station id, or nothing.
Stations ==
  { DefaultStation,
    [id |-> "9414290", name |-> "San Francisco"],
    [id |-> "8518750", name |-> "The Battery, NY"] }
NoIdResult == [isNull |-> FALSE, id |-> "", name |-> ""]
NullResult == [isNull |-> TRUE, id |-> "", name |-> ""]
LookupResults ==
  {[isNull |-> FALSE, id |-> st.id, name |-> st.name] : st \in Stations}
    \cup {NoIdResult, NullResult}

Thresholds == {0, DefaultThreshold}
LeadDayOptions == {0, 1, 2, 3, 7}

MonthTicks == MonthLen * TicksPerDay
\* The app is opened on the first day of a month, far enough from tick 0
\* for every month the run can reach to be a month of the calendar.
Epoch == MaxReqs * MonthTicks
MaxNow == Epoch + TicksPerDay

----------------------------------------------------------------------------
(* date-fns, on the model calendar *)

StartOfDay(d) == (d \div TicksPerDay) * TicksPerDay
StartOfMonth(d) == (d \div MonthTicks) * MonthTicks
EndOfMonth(d) == StartOfMonth(d) + MonthTicks - 1
AddMonths(d, n) == d + n * MonthTicks
IsSameDay(a, b) == a \div TicksPerDay = b \div TicksPerDay
IsAfter(a, b) == a > b

\* Full days from b to a, truncated towards zero.
DifferenceInDays(a, b) ==
  IF a >= b THEN (a - b) \div TicksPerDay ELSE 0 - ((b - a) \div TicksPerDay)

\* eachDayOfInterval: the midnights from start's day to end's day.
EachDayOfInterval(start, end) ==
  [i \in 1..((StartOfDay(end) - StartOfDay(start)) \div TicksPerDay + 1) |->
     StartOfDay(start) + (i - 1) * TicksPerDay]

\* A time string "yyyy-MM-dd HH:mm" is <<month, day of month, tick of day>>.
Parse(t) ==
  IF t[1] \in Nat /\ t[2] \in 1..MonthLen /\ t[3] \in 0..(TicksPerDay - 1)
  THEN (t[1] * MonthLen + (t[2] - 1)) * TicksPerDay + t[3]
  ELSE InvalidDate

\* format(d, 'yyyyMMdd'): month and day of month as one number.
FormatYMD(d) ==
  ((d \div TicksPerDay) \div MonthLen) * 100 + ((d \div TicksPerDay) % MonthLen) + 1

\* A value string "f.t" is <<feet, tenths>>; parseFloat gives tenths of a foot.
ParseFloat(v) == IF v[1] >= 0 THEN v[1] * 10 + v[2] ELSE v[1] * 10 - v[2]

----------------------------------------------------------------------------
(* loadTideData, lines 143-168: bucketing the response *)

SetMax(S) == CHOOSE x \in S : \A y \in S : y <= x
SetMin(S) == CHOOSE x \in S : \A y \in S : x <= y

ToEvent(p) ==
  [time |-> Parse(p.t), height |-> ParseFloat(p.v), isPeak |-> TRUE, type |-> p.type]

\* line 150
OnDayOfMonth(p, day) ==
  Parse(p.t) # InvalidDate /\ StartOfMonth(Parse(p.t)) = StartOfMonth(day)
OnDay(p, day) == Parse(p.t) # InvalidDate /\ IsSameDay(Parse(p.t), day)

DayEvents(hilo, day) ==
  LET sel == SelectSeq(hilo, LAMBDA p : OnDay(p, day))
  IN  [i \in 1..Len(sel) |-> ToEvent(sel[i])]

HighHeights(events) ==
  {events[i].height : i \in {j \in DOMAIN events : events[j].type = "H"}}

AllHeights(events) == {events[i].height : i \in DOMAIN events}

MaxHeight(events) ==
  IF HighHeights(events) # {} THEN SetMax(HighHeights(events)) ELSE 0

MinHeight(events) ==
  IF Len(events) # 0 THEN SetMin(AllHeights(events)) ELSE 0

MeetsThreshold(maxHeight, thr) == maxHeight >= thr

ProcessDay(hilo, day, thr) ==
  LET events == DayEvents(hilo, day)
  IN  [date |-> day,
       events |-> events,
       maxHeight |-> MaxHeight(events),
       minHeight |-> MinHeight(events),
       meetsThreshold |-> MeetsThreshold(MaxHeight(events), thr)]

Processed(hilo, date, thr) ==
  LET days == EachDayOfInterval(StartOfMonth(date), EndOfMonth(date))
  IN  [i \in DOMAIN days |-> ProcessDay(hilo, days[i], thr)]

----------------------------------------------------------------------------
(* checkUpcomingTidesForAlerts, lines 96-132.  c is the closure of the     *)
(* render that created the callback: its notifSettings, station and        *)
(* threshold.  The clock, the permission, the controller and the storage   *)
(* are read when the routine runs.                                         *)

\* line 97
AlertsOn(c) == c.notifSettings.enabled /\ permission = "granted"

\* lines 100-104
IsUpcoming(day, c, today) ==
  /\ day.meetsThreshold
  /\ IsAfter(day.date, today)
  /\ DifferenceInDays(day.date, today) <= c.notifSettings.leadDays + LeadWindow

\* lines 107-108
IsLeadTimeMet(day, c, today) ==
  DifferenceInDays(day.date, today) <= c.notifSettings.leadDays

\* line 112: find gives the first match
PeakIndexes(day, c) ==
  {i \in DOMAIN day.events :
     day.events[i].type = "H" /\ day.events[i].height >= c.threshold}

MaxEvent(day, c) == day.events[SetMin(PeakIndexes(day, c))]

\* line 114
AlertKey(st, date) == <<"alert", st.id, FormatYMD(date)>>

\* line 115
AlreadySentNever(key, store) == FALSE
AlreadySent(key, store) == key \in store

\* lines 118-125; station is kept whole to tell which station the message is for
Message(c, day) ==
  [type |-> "SHOW_NOTIFICATION",
   station |-> c.station,
   day |-> FormatYMD(day.date),
   height |-> MaxEvent(day, c).height,
   time |-> MaxEvent(day, c).time]

\* the days of data that get past lines 100-113
Eligible(data, c) ==
  {i \in DOMAIN data :
     /\ IsUpcoming(data[i], c, now)
     /\ IsLeadTimeMet(data[i], c, now)
     /\ PeakIndexes(data[i], c) # {}}

\* and those that get past line 115 too
DueDays(data, c) ==
  {i \in Eligible(data, c) :
     ~AlreadySent(AlertKey(c.station, data[i].date), storage)}

KeysOfDays(data, c, days) == {AlertKey(c.station, data[i].date) : i \in days}

\* line 117
CanPost(c) == AlertsOn(c) /\ controller

\* lines 118-125: the messages one run posts
MessagesOf(data, c) ==
  IF CanPost(c) THEN {Message(c, data[i]) : i \in DueDays(data, c)} ELSE {}

\* line 126: the keys one run writes
KeysOfAnyway(data, c) ==
  IF AlertsOn(c) THEN KeysOfDays(data, c, DueDays(data, c)) ELSE {}
KeysOf(data, c) ==
  IF CanPost(c) THEN KeysOfDays(data, c, DueDays(data, c)) ELSE {}

\* history: the keys line 115 found already written, and the keys line 117
\* dropped for want of a controller
HeldKeys(data, c) ==
  IF AlertsOn(c)
  THEN KeysOfDays(data, c, Eligible(data, c) \ DueDays(data, c)) ELSE {}
LostKeys(data, c) ==
  IF AlertsOn(c) /\ ~controller THEN KeysOfDays(data, c, DueDays(data, c)) ELSE {}

----------------------------------------------------------------------------
(* What the prediction service can answer for the month of a date.         *)

MonthOf(d) == d \div MonthTicks

PredTimes(date) ==
  {<<MonthOf(date), d, h>> : d \in 1..MonthLen, h \in 0..(TicksPerDay - 1)}
    \cup {<<MonthOf(date) + 1, 1, 0>>}
\* A high tide below and one above the default threshold, a low tide above
\* it, and a prediction without a type.
PredKinds ==
  {<<<<3, 0>>, "H">>, <<<<7, 0>>, "H">>, <<<<7, 0>>, "L">>, <<<<3, 0>>, "none">>}
Preds(date) ==
  {[t |-> t, v |-> k[1], type |-> k[2]] : t \in PredTimes(date), k \in PredKinds}

InTimeOrder(s) == \A i \in 1..(Len(s) - 1) : Parse(s[i].t) < Parse(s[i + 1].t)

\* Up to MaxPreds predictions in time order, of that month or just after it.
Responses(date) ==
  UNION {{s \in [1..n -> Preds(date)] : InTimeOrder(s)} : n \in 0..MaxPreds}

\* Nothing, or one high tide of 7.0 ft on a day of the month.
HighTideResponses(date) ==
  {<<>>} \cup {<<[t |-> <<MonthOf(date), d, 1>>, v |-> <<7, 0>>, type |-> "H"]>> :
                 d \in 1..MonthLen}

\* Nothing at all.
EmptyResponses(date) == {<<>>}

\* Two high tides on one day of the month, of 7.0 ft or 8.5 ft each.
TwoHighResponses(date) ==
  {<<[t |-> <<MonthOf(date), d, 0>>, v |-> h1, type |-> "H"],
     [t |-> <<MonthOf(date), d, 1>>, v |-> h2, type |-> "H"]>> :
     d \in 1..MonthLen, h1 \in {<<7, 0>>, <<8, 5>>}, h2 \in {<<7, 0>>, <<8, 5>>}}

\* The responses a specification draws from.
ResponsePool(pool, date) ==
  CASE pool = "any" -> Responses(date)
    [] pool = "high" -> HighTideResponses(date)
    [] pool = "empty" -> EmptyResponses(date)
    [] pool = "two" -> TwoHighResponses(date)

----------------------------------------------------------------------------
(* The state after the first render and its effects (lines 56-76, 180).    *)

Closure(seq, cd, st, thr, ns) ==
  [seq |-> seq, currentDate |-> cd, station |-> st, threshold |-> thr,
   notifSettings |-> ns]

Init ==
  /\ now \in {Epoch, Epoch + 1}
  /\ currentDate = now
  /\ station = DefaultStation
  /\ threshold = DefaultThreshold
  /\ dailyData = <<>>
  /\ notifSettings = [enabled |-> FALSE, leadDays |-> DefaultLeadDays]
  /\ favorites = <<>>
  /\ permission = "default"
  /\ controller \in BOOLEAN
  /\ storage = {}
  /\ posted = EmptyBag
  /\ lookups = {}
  /\ nreq = 1
  /\ loading = TRUE
  /\ error = NULL
  /\ loads = {Closure(1, currentDate, station, threshold, notifSettings)}
  /\ lastOk = NoLoad
  /\ order = <<>>
  /\ held = {}
  /\ lost = {}
  /\ failed = FALSE

----------------------------------------------------------------------------
(* loadTideData, lines 134-178 *)

\* lines 135-141, run by the effect of line 180 after a render that changed
\* currentDate, station, threshold or notifSettings
StartLoad(cd, st, thr, ns) ==
  /\ nreq < MaxReqs
  /\ loading' = TRUE
  /\ error' = NULL
  /\ loads' = loads \cup {Closure(nreq + 1, cd, st, thr, ns)}
  /\ nreq' = nreq + 1
  /\ failed' = FALSE

\* line 170
SetDailyDataIfCurrent(prev, req, processed) ==
  IF req.currentDate = currentDate /\ req.station = station
       /\ req.threshold = threshold
  THEN processed ELSE prev
SetDailyData(prev, req, processed) == processed

\* lines 143-171, 176: the fetch of req answers hilo
LoadResolve(pool) ==
  \E req \in loads : \E hilo \in ResponsePool(pool, req.currentDate) :
    LET processed == Processed(hilo, req.currentDate, req.threshold) IN
    /\ dailyData' = SetDailyData(dailyData, req, processed)
    /\ posted' = posted (+) SetToBag(MessagesOf(processed, req))
    /\ storage' = storage \cup KeysOf(processed, req)
    /\ loading' = FALSE
    /\ loads' = loads \ {req}
    /\ lastOk' = [seq |-> req.seq, req |-> req, hilo |-> hilo]
    /\ order' = Append(order, [seq |-> req.seq, ok |-> TRUE])
    /\ held' = held \cup HeldKeys(processed, req)
    /\ lost' = lost \cup LostKeys(processed, req)
    /\ UNCHANGED <<uiVars, envVars, error, lookups, nreq, failed>>

\* lines 173-177 with the data emptied before the fetch
LoadRejectClearing ==
  \E req \in loads :
    /\ dailyData' = <<>>
    /\ error' = ErrLoad
    /\ loading' = FALSE
    /\ loads' = loads \ {req}
    /\ order' = Append(order, [seq |-> req.seq, ok |-> FALSE])
    /\ failed' = TRUE
    /\ UNCHANGED <<uiVars, envVars, storage, posted, lookups, nreq,
                   lastOk, held, lost>>

\* lines 173-177: the fetch of req fails
LoadReject ==
  \E req \in loads :
    /\ error' = ErrLoad
    /\ loading' = FALSE
    /\ loads' = loads \ {req}
    /\ order' = Append(order, [seq |-> req.seq, ok |-> FALSE])
    /\ failed' = TRUE
    /\ UNCHANGED <<uiVars, envVars, dailyData, storage, posted, lookups, nreq,
                   lastOk, held, lost>>

----------------------------------------------------------------------------
(* Month, threshold and notification settings *)

\* lines 211, 384
NextMonth ==
  /\ currentDate' = AddMonths(currentDate, 1)
  /\ StartLoad(currentDate', station, threshold, notifSettings)
  /\ UNCHANGED <<station, threshold, notifSettings, favorites, envVars,
                 dailyData, storage, posted, lookups, lastOk, order, held, lost>>

\* lines 212, 383
PrevMonth ==
  /\ currentDate' = AddMonths(currentDate, 0 - 1)
  /\ StartLoad(currentDate', station, threshold, notifSettings)
  /\ UNCHANGED <<station, threshold, notifSettings, favorites, envVars,
                 dailyData, storage, posted, lookups, lastOk, order, held, lost>>

\* line 274
SetThreshold ==
  \E t \in Thresholds :
    /\ t # threshold
    /\ threshold' = t
    /\ StartLoad(currentDate, station, t, notifSettings)
    /\ UNCHANGED <<currentDate, station, notifSettings, favorites, envVars,
                   dailyData, storage, posted, lookups, lastOk, order, held, lost>>

\* line 300, notifications on: switch them off
DisableNotif ==
  /\ notifSettings.enabled
  /\ notifSettings' = [notifSettings EXCEPT !.enabled = FALSE]
  /\ StartLoad(currentDate, station, threshold, notifSettings')
  /\ UNCHANGED <<currentDate, station, threshold, favorites, envVars,
                 dailyData, storage, posted, lookups, lastOk, order, held, lost>>

\* lines 85-93 and 300, notifications off: the browser asks the user only
\* while the permission is still 'default'.  The update after the await is
\* a functional one, so the prompt and its answer are one step.
RequestNotifPermission ==
  \E answer \in {"granted", "denied", "default"} :
    /\ ~notifSettings.enabled
    /\ permission # "default" => answer = permission
    /\ permission' = answer
    /\ notifSettings' = [notifSettings EXCEPT !.enabled = (answer = "granted")]
    /\ StartLoad(currentDate, station, threshold, notifSettings')
    /\ UNCHANGED <<currentDate, station, threshold, favorites, now, controller,
                   dailyData, storage, posted, lookups, lastOk, order, held, lost>>

\* lines 309-322; the select takes no pointer events while notifications are off
SetLeadDays ==
  \E n \in LeadDayOptions :
    /\ notifSettings.enabled
    /\ n # notifSettings.leadDays
    /\ notifSettings' = [notifSettings EXCEPT !.leadDays = n]
    /\ StartLoad(currentDate, station, threshold, notifSettings')
    /\ UNCHANGED <<currentDate, station, threshold, favorites, envVars,
                   dailyData, storage, posted, lookups, lastOk, order, held, lost>>

----------------------------------------------------------------------------
(* Station lookups: handleSearch (lines 184-196) and the 'Use My Location' *)
(* handler (lines 486-497)                                                 *)

\* lines 185-188, for a query that is not blank
HandleSearch ==
  /\ nreq < MaxReqs
  /\ loading' = TRUE
  /\ lookups' = lookups \cup {[seq |-> nreq + 1, kind |-> "search"]}
  /\ nreq' = nreq + 1
  /\ UNCHANGED <<uiVars, envVars, dailyData, error, storage, posted, loads, histVars>>

\* lines 487-491, once the position is known
UseMyLocation ==
  /\ nreq < MaxReqs
  /\ loading' = TRUE
  /\ lookups' = lookups \cup {[seq |-> nreq + 1, kind |-> "geo"]}
  /\ nreq' = nreq + 1
  /\ UNCHANGED <<uiVars, envVars, dailyData, error, storage, posted, loads, histVars>>

\* line 189
SearchFound(result) == ~result.isNull /\ result.id # ""
\* line 492
GeoFound(result) == ~result.isNull

\* lines 189-191, 195, then the effect of line 180 for the new station
SearchResolveFound ==
  \E r \in lookups : \E result \in LookupResults :
    /\ r.kind = "search"
    /\ SearchFound(result)
    /\ station' = [id |-> result.id, name |-> result.name]
    /\ lookups' = lookups \ {r}
    /\ StartLoad(currentDate, station', threshold, notifSettings)
    /\ UNCHANGED <<currentDate, threshold, notifSettings, favorites, envVars,
                   dailyData, storage, posted, lastOk, order, held, lost>>

\* lines 192-195
SearchResolveNotFound ==
  \E r \in lookups : \E result \in LookupResults :
    /\ r.kind = "search"
    /\ ~SearchFound(result)
    /\ error' = ErrNotFound
    /\ loading' = FALSE
    /\ lookups' = lookups \ {r}
    /\ failed' = TRUE
    /\ UNCHANGED <<uiVars, envVars, dailyData, storage, posted, loads, nreq,
                   lastOk, order, held, lost>>

\* lines 492-495, then the effect of line 180 for the new station
GeoResolveFound ==
  \E r \in lookups : \E result \in LookupResults :
    /\ r.kind = "geo"
    /\ GeoFound(result)
    /\ station' = [id |-> result.id, name |-> result.name]
    /\ lookups' = lookups \ {r}
    /\ StartLoad(currentDate, station', threshold, notifSettings)
    /\ UNCHANGED <<currentDate, threshold, notifSettings, favorites, envVars,
                   dailyData, storage, posted, lastOk, order, held, lost>>

\* line 495 alone: the lookup found nothing
GeoResolveNotFound ==
  \E r \in lookups : \E result \in LookupResults :
    /\ r.kind = "geo"
    /\ ~GeoFound(result)
    /\ loading' = FALSE
    /\ lookups' = lookups \ {r}
    /\ failed' = TRUE
    /\ UNCHANGED <<uiVars, envVars, dailyData, error, storage, posted, loads, nreq,
                   lastOk, order, held, lost>>

----------------------------------------------------------------------------
(* Favorites *)

IsFav(prev, st) == \E i \in DOMAIN prev : prev[i].id = st.id

\* lines 199-206
ToggledAlwaysAdd(prev, st) == Append(prev, st)
Toggled(prev, st) ==
  IF IsFav(prev, st)
  THEN SelectSeq(prev, LAMBDA f : f.id # st.id)
  ELSE Append(prev, st)

\* line 357
Removed(prev, fav) == SelectSeq(prev, LAMBDA f : f.id # fav.id)

\* line 238
ToggleFavorite ==
  /\ favorites' = Toggled(favorites, station)
  /\ UNCHANGED <<currentDate, station, threshold, notifSettings, envVars, loading,
                 dailyData, error, storage, posted, loads, lookups, nreq, histVars>>

\* lines 354-358
RemoveFavorite ==
  \E i \in DOMAIN favorites :
    /\ favorites' = Removed(favorites, favorites[i])
    /\ UNCHANGED <<currentDate, station, threshold, notifSettings, envVars, loading,
                   dailyData, error, storage, posted, loads, lookups, nreq, histVars>>

\* line 344: a favorite that is another object than the station shown
\* renders again and loads (one that is the same object changes nothing)
SelectFavorite ==
  \E i \in DOMAIN favorites :
    /\ station' = favorites[i]
    /\ StartLoad(currentDate, station', threshold, notifSettings)
    /\ UNCHANGED <<currentDate, threshold, notifSettings, favorites, envVars,
                   dailyData, storage, posted, lookups, lastOk, order, held, lost>>

----------------------------------------------------------------------------
(* The browser around the component *)

\* time passes
Tick ==
  /\ now < MaxNow
  /\ now' = now + 1
  /\ UNCHANGED <<uiVars, permission, controller, loading, dailyData, error,
                 storage, posted, loads, lookups, nreq, histVars>>

\* the user allows or blocks the site's notifications in the browser
PermissionChange ==
  \E p \in {"granted", "denied"} :
    /\ p # permission
    /\ permission' = p
    /\ UNCHANGED <<uiVars, now, controller, loading, dailyData, error,
                   storage, posted, loads, lookups, nreq, histVars>>

\* a service worker takes or loses control of the page
ControllerChange ==
  /\ controller' = ~controller
  /\ UNCHANGED <<uiVars, now, permission, loading, dailyData, error,
                 storage, posted, loads, lookups, nreq, histVars>>

----------------------------------------------------------------------------

\* Every operation, with single high tides as responses.
Next ==
  \/ LoadResolve("high")
  \/ LoadReject
  \/ NextMonth
  \/ PrevMonth
  \/ SetThreshold
  \/ HandleSearch
  \/ UseMyLocation
  \/ SearchResolveFound
  \/ SearchResolveNotFound
  \/ GeoResolveFound
  \/ GeoResolveNotFound

Spec == Init /\ [][Next]_vars

\* Loads of any response, for the months and thresholds the user picks.
NextData ==
  \/ LoadResolve("any")
  \/ NextMonth
  \/ SetThreshold

\* A first visit, some time into the day, with no service worker yet.
InitData ==
  /\ Init
  /\ now = Epoch + 1
  /\ ~controller

SpecData == InitData /\ [][NextData]_vars

\* Favorites and station changes.
NextFav ==
  \/ LoadResolve("empty")
  \/ ToggleFavorite
  \/ RemoveFavorite
  \/ SelectFavorite
  \/ HandleSearch
  \/ UseMyLocation
  \/ SearchResolveFound
  \/ SearchResolveNotFound
  \/ GeoResolveFound
  \/ GeoResolveNotFound

SpecFav == Init /\ [][NextFav]_vars

\* A user who comes back with notifications switched on and two favorites
\* saved (lines 68, 74), one of them the station shown under another name.
InitAlert ==
  /\ now \in {Epoch, Epoch + 1}
  /\ currentDate = now
  /\ station = DefaultStation
  /\ threshold = DefaultThreshold
  /\ dailyData = <<>>
  /\ notifSettings \in [enabled : {TRUE}, leadDays : {0, DefaultLeadDays}]
  /\ favorites = <<[id |-> "9414290", name |-> "San Francisco"],
                 [id |-> "8518750", name |-> "The Battery, NY"]>>
  /\ permission = "granted"
  /\ controller \in BOOLEAN
  /\ storage = {}
  /\ posted = EmptyBag
  /\ lookups = {}
  /\ nreq = 1
  /\ loading = TRUE
  /\ error = NULL
  /\ loads = {Closure(1, currentDate, station, threshold, notifSettings)}
  /\ lastOk = NoLoad
  /\ order = <<>>
  /\ held = {}
  /\ lost = {}
  /\ failed = FALSE

NextAlert ==
  \/ LoadResolve("high")
  \/ LoadReject
  \/ NextMonth
  \/ SetThreshold
  \/ DisableNotif
  \/ RequestNotifPermission
  \/ SetLeadDays
  \/ SelectFavorite
  \/ Tick
  \/ PermissionChange
  \/ ControllerChange

SpecAlert == InitAlert /\ [][NextAlert]_vars

\* The same user on days with two high tides.
NextPeak ==
  \/ LoadResolve("two")
  \/ NextMonth
  \/ SetThreshold
  \/ Tick
  \/ ControllerChange

SpecPeak == InitAlert /\ [][NextPeak]_vars

----------------------------------------------------------------------------
(* Properties *)

KeyOfMessage(m) == <<"alert", m.station.id, m.day>>
IsOrderOk == \A i \in DOMAIN order : order[i].ok

\* C1: at most one SHOW_NOTIFICATION message is ever posted for a pair of
\* station id and calendar day, whatever loads, settings, threshold, month
\* and station changes happen.
C1_OncePerStationDay ==
  \A m1 \in BagToSet(posted) :
    /\ CopiesIn(m1, posted) = 1
    /\ \A m2 \in BagToSet(posted) : KeyOfMessage(m1) = KeyOfMessage(m2) => m1 = m2

\* C1 witness: a message was posted, and a later load found the same day
\* due again and held it back because its marker was there.
C1_Witness ==
  \E m \in BagToSet(posted) : KeyOfMessage(m) \in held

\* C3: while a fetch or a station lookup is outstanding, loading is true.
C3_LoadingWhileOutstanding ==
  (loads # {} \/ lookups # {}) => loading

\* C4: when overlapping loads have all succeeded and none is outstanding,
\* dailyData is the result of the load whose response arrived last.
C4_LastArrivalWins ==
  (loads = {} /\ order # <<>> /\ IsOrderOk) =>
    /\ lastOk.seq = order[Len(order)].seq
    /\ dailyData = Processed(lastOk.hilo, lastOk.req.currentDate, lastOk.req.threshold)

\* C4 witness: two loads overlapped, the one started later answered first,
\* and dailyData is the result of the one started earlier.
C4_Witness ==
  /\ loads = {}
  /\ Len(order) >= 2
  /\ IsOrderOk
  /\ order[Len(order)].seq < order[Len(order) - 1].seq
  /\ lastOk.hilo # <<>>
  /\ dailyData = Processed(lastOk.hilo, lastOk.req.currentDate, lastOk.req.threshold)

\* C5: after a failed fetch or a lookup that found no station, error holds
\* a message until the next load starts.
C5_FailureLeavesError ==
  failed => error # NULL

\* C6: no two favorites have the same station id.
C6_FavoriteIdsDistinct ==
  \A i, j \in DOMAIN favorites : favorites[i].id = favorites[j].id => i = j

\* C6 witness: two favorites, the station shown among them.
C6_Witness ==
  /\ Len(favorites) >= 2
  /\ IsFav(favorites, station)

\* the predictions of a response that fall on the day that starts at date
PredsOn(hilo, date) ==
  {k \in DOMAIN hilo :
     Parse(hilo[k].t) # InvalidDate
       /\ Parse(hilo[k].t) \div TicksPerDay = date \div TicksPerDay}

HasHighTideAtLeast(day, thr) ==
  \E i \in DOMAIN day.events :
    day.events[i].type = "H" /\ day.events[i].height >= thr

\* C2: a day of the loaded data meets the threshold exactly when it has a
\* high-tide event at or above the threshold of that load.
C2_MeetsThresholdIffHighTide ==
  lastOk # NoLoad =>
    \A i \in DOMAIN dailyData :
      dailyData[i].meetsThreshold
        <=> HasHighTideAtLeast(dailyData[i], lastOk.req.threshold)

\* the buckets of data are those of response hilo for month m
IsBucketed(data, hilo, m) ==
  /\ Len(data) = MonthLen
  /\ \A i \in DOMAIN data :
       /\ data[i].date = (m * MonthLen + (i - 1)) * TicksPerDay
       /\ Len(data[i].events) = Cardinality(PredsOn(hilo, data[i].date))
       /\ \A j \in DOMAIN data[i].events :
            /\ \E k \in PredsOn(hilo, data[i].date) :
                 /\ data[i].events[j].time = Parse(hilo[k].t)
                 /\ data[i].events[j].height = ParseFloat(hilo[k].v)
                 /\ data[i].events[j].type = hilo[k].type
            /\ \A j2 \in DOMAIN data[i].events :
                 j < j2 => data[i].events[j].time < data[i].events[j2].time
  /\ \A k \in DOMAIN hilo :
       Cardinality({i \in DOMAIN data :
                      \E j \in DOMAIN data[i].events :
                        data[i].events[j].time = Parse(hilo[k].t)})
         = IF Parse(hilo[k].t) # InvalidDate /\ MonthOf(Parse(hilo[k].t)) = m
           THEN 1 ELSE 0

\* C7 as stated: after a successful load, with none outstanding, dailyData
\* has one entry per day of the month shown, each with the predictions of
\* that day.
C7_BucketsOfVisibleMonth ==
  (lastOk # NoLoad /\ loads = {}) =>
    IsBucketed(dailyData, lastOk.hilo, MonthOf(currentDate))

\* C7 amended: after a successful load dailyData has one entry per day of
\* the month that load was started for, in date order, and each entry holds
\* exactly the predictions of the response that fall on its day.
C7_BucketsOfLoadedMonth ==
  lastOk # NoLoad =>
    IsBucketed(dailyData, lastOk.hilo, MonthOf(lastOk.req.currentDate))

\* C7 witness: a response with two predictions, one of them outside the
\* month, for a month that is no longer the one shown.
C7_Witness ==
  /\ lastOk # NoLoad
  /\ Len(lastOk.hilo) = 2
  /\ \E k \in DOMAIN lastOk.hilo :
       MonthOf(Parse(lastOk.hilo[k].t)) # MonthOf(lastOk.req.currentDate)
  /\ \E i \in DOMAIN dailyData : dailyData[i].events # <<>>
  /\ MonthOf(lastOk.req.currentDate) # MonthOf(currentDate)

\* C8: a sent-marker is in storage exactly when a message was posted for
\* its station id and day.
C8_MarkerIffPosted ==
  storage = {KeyOfMessage(m) : m \in BagToSet(posted)}

\* C8 witness: a load found an alert due while no service worker controlled
\* the page, and a later load posted it.
C8_Witness ==
  \E m \in BagToSet(posted) : KeyOfMessage(m) \in lost /\ KeyOfMessage(m) \in storage

\* C9: a message is posted only while the current settings have
\* notifications enabled and the permission is granted.
C9_PostedOnlyWhileEnabled ==
  [][posted' # posted => (notifSettings.enabled /\ permission = "granted")]_vars

CalendarDaysAhead(date, today) == date \div TicksPerDay - today \div TicksPerDay

\* C10: with notifications enabled, permitted and a service worker present,
\* a load posts a message for a day with a high tide at or above the
\* threshold exactly when the day is 0 to leadDays calendar days ahead and
\* has no marker yet.
C10_LeadWindow ==
  [][\A req \in loads :
       ( /\ req \notin loads'
         /\ lastOk'.seq = req.seq
         /\ Len(order') > Len(order)
         /\ req.notifSettings = notifSettings
         /\ notifSettings.enabled
         /\ permission = "granted"
         /\ controller )
       => \A i \in DOMAIN dailyData' :
            HasHighTideAtLeast(dailyData'[i], req.threshold)
              => ( (AlertKey(req.station, dailyData'[i].date) \in storage' \ storage)
                   <=> ( /\ CalendarDaysAhead(dailyData'[i].date, now) \in
                              0..notifSettings.leadDays
                         /\ AlertKey(req.station, dailyData'[i].date) \notin storage ) )
    ]_vars

\* a step in which a load ends with a failed fetch
IsFailedLoadStep ==
  /\ Len(order') = Len(order) + 1
  /\ ~order'[Len(order')].ok

\* C11: a load whose fetch fails leaves dailyData as it was, posts no
\* message, writes no sent-marker and sets loading to false.
C11_FailedLoadFrame ==
  [][IsFailedLoadStep =>
       /\ dailyData' = dailyData
       /\ posted' = posted
       /\ storage' = storage
       /\ loading' = FALSE]_vars

\* C11 witness: a load has just failed after an earlier one filled dailyData
\* and posted a message, with notifications still on.
C11_Witness ==
  /\ Len(order) >= 2
  /\ ~order[Len(order)].ok
  /\ order[Len(order) - 1].ok
  /\ \E i \in DOMAIN dailyData : dailyData[i].events # <<>>
  /\ dailyData = Processed(lastOk.hilo, lastOk.req.currentDate, lastOk.req.threshold)
  /\ posted # EmptyBag
  /\ notifSettings.enabled /\ permission = "granted" /\ controller
  /\ error = ErrLoad
  /\ ~loading

\* C13: every day entry of dailyData has minHeight <= maxHeight, whatever
\* mix of high-tide, low-tide and untyped events the day has.
C13_MinAtMostMax ==
  \A i \in DOMAIN dailyData : dailyData[i].minHeight <= dailyData[i].maxHeight

\* message m reports the greatest high tide of the day entry
IsPeakOf(m, day) ==
  /\ m.day = FormatYMD(day.date)
  /\ \E i \in DOMAIN day.events :
       /\ day.events[i].type = "H"
       /\ day.events[i].height = m.height
       /\ day.events[i].time = m.time
  /\ \A j \in DOMAIN day.events :
       day.events[j].type = "H" => day.events[j].height <= m.height

\* C12: the height and time of every message a load posts are those of the
\* greatest high-tide event of the message's day in the data of that load.
C12_MessageReportsPeak ==
  [][\A m \in BagToSet(posted') :
       CopiesIn(m, posted') > CopiesIn(m, posted) =>
         \E i \in DOMAIN dailyData' : IsPeakOf(m, dailyData'[i])]_vars

====
